---- MODULE Spec2Model ----
(***************************************************************************)
(* A model of scripts/generate-sample-data.py: the sample-data generator   *)
(* of the Lakewood University advancement demo.                             *)
(*                                                                          *)
(* Money is an integer number of mills (1/1000 dollar) before rounding and  *)
(* of cents after round(x, 2); a datetime is a day ordinal counted from     *)
(* 2010-01-01; strftime("%Y-%m-%d") turns it into <<year, month, day>>.     *)
(* An identifier f"G-{const_id}-{n}" is the triple <<"G", const_id, n>>,    *)
(* and const_id f"LU-{idx:05d}" the pair <<"LU", idx>>.                     *)
(*                                                                          *)
(* Fields that are drawn at random and never read again (names, address,   *)
(* phone, gift type, fund, campaign, appeal, matching, tribute, anonymity, *)
(* subject, notes, outcome, next action) are left out of the records.      *)
(***************************************************************************)
EXTENDS Integers, Sequences, FiniteSets, TLC

VARIABLES
    runs,     \* main(): one record of main's locals per run of the script
    tape,     \* the seeded random source: its stream and each run's position
    seeded,   \* TRUE when the runs are compared draw by draw (two-run check)
    fn,       \* the function under test of the single-call specification
    arg,      \* its argument
    loc,      \* its locals
    ret       \* <<its return value>>, <<>> until it returns

vars == <<runs, tape, seeded, fn, arg, loc, ret>>

(***************************************************************************)
(* Bounds of the model                                                      *)
(***************************************************************************)
\* NUM_CONSTITUENTS is configured from 0 to MaxConstituents (800 in the file).
MaxConstituents == 1
\* random.randint(100, 999) in create_gift / create_contact: the lowest
\* NumCreateSuffixes values; in the retry loops: the lowest NumSuffixes values.
NumCreateSuffixes == 1
NumSuffixes == 6
\* A draw of the single-call specification takes the Width lowest and the
\* Width highest values of its range.
Width == 1
\* Values of the random stream one run may be ahead of the other by.
MaxLag == 1

(***************************************************************************)
(* Program constants                                                        *)
(***************************************************************************)
SuffixLo == 100
SuffixHi == 999
AnchorYear == 2026
EpochYear == 2010

NoValue == "NoValue"

john_officer == "1ac9d0ea-888d-48a4-b963-d2d61e96c073"
sarah_manager == "807c31b2-1052-48c8-8ff7-c26e17fa8e16"
Officers == {john_officer, sarah_manager}
Tiers == {"major", "leadership", "annual", ""}
ConstituentTypes == {"alumni", "parent", "friend", "foundation", "corporation"}

Min(a, b) == IF a < b THEN a ELSE b
Max(a, b) == IF a > b THEN a ELSE b

(***************************************************************************)
(* random: a draw from lo..hi, narrowed to the w lowest and w highest       *)
(* values (w = 0: the lowest value only).                                   *)
(***************************************************************************)
RandInt(lo, hi, w) ==
    IF w = 0 THEN {lo}
    ELSE {x \in lo..hi : x < lo + w \/ x > hi - w}

\* random.sample(range(...), k), one element at a time: the next year is any
\* year not drawn yet.
SampleNext(unused, w) ==
    IF w = 0 THEN {x \in unused : \A y \in unused : x <= y}
    ELSE {x \in unused : Cardinality({y \in unused : y < x}) < w
                         \/ Cardinality({y \in unused : y > x}) < w}

CreateSuffixes == SuffixLo..Min(SuffixHi, SuffixLo + NumCreateSuffixes - 1)
RetrySuffixes == SuffixLo..Min(SuffixHi, SuffixLo + NumSuffixes - 1)

(***************************************************************************)
(* datetime                                                                 *)
(***************************************************************************)
IsLeap(y) == (y % 4 = 0 /\ y % 100 # 0) \/ y % 400 = 0

DaysInMonth(y, m) ==
    IF m = 2 THEN (IF IsLeap(y) THEN 29 ELSE 28)
    ELSE IF m \in {4, 6, 9, 11} THEN 30 ELSE 31

RECURSIVE DaysBeforeMonth(_, _)
DaysBeforeMonth(y, m) ==
    IF m = 1 THEN 0 ELSE DaysBeforeMonth(y, m - 1) + DaysInMonth(y, m - 1)

RECURSIVE DaysBeforeYearFrom(_)
DaysBeforeYearFrom(y) ==
    IF y <= EpochYear THEN 0
    ELSE DaysBeforeYearFrom(y - 1) + (IF IsLeap(y - 1) THEN 366 ELSE 365)

\* The days from 2010-01-01 to the first day of year y, tabulated.
DaysBeforeYearTable ==
    [y \in EpochYear..(AnchorYear + 2) |-> DaysBeforeYearFrom(y)]

DaysBeforeYear(y) == DaysBeforeYearTable[y]

\* datetime(y, m, d)
datetime(y, m, d) == DaysBeforeYear(y) + DaysBeforeMonth(y, m) + (d - 1)

\* The calendar date of day ordinal n.
DateOf(n) ==
    LET y == CHOOSE yy \in EpochYear..(AnchorYear + 1) :
                 DaysBeforeYear(yy) <= n /\ n < DaysBeforeYear(yy + 1)
        r == n - DaysBeforeYear(y)
        m == CHOOSE mm \in 1..12 :
                 DaysBeforeMonth(y, mm) <= r
                 /\ r < DaysBeforeMonth(y, mm) + DaysInMonth(y, mm)
    IN  <<y, m, r - DaysBeforeMonth(y, m) + 1>>

DateTable == [n \in 0..(DaysBeforeYear(AnchorYear + 2) - 1) |-> DateOf(n)]

\* dt.strftime("%Y-%m-%d")
strftime(n) == DateTable[n]

\* today = datetime(2026, 1, 29)
today == datetime(AnchorYear, 1, 29)

(***************************************************************************)
(* Arithmetic                                                               *)
(***************************************************************************)
\* a * n / d, rounded down, without an intermediate product beyond 32 bits.
MulDiv(a, n, d) == (a \div d) * n + ((a % d) * n) \div d

\* round(a / d): the nearest integer to a / d, ties to the even one.
RoundDiv(a, d) ==
    LET q == a \div d
        r == a % d
    IN  IF 2 * r > d \/ (2 * r = d /\ q % 2 = 1) THEN q + 1 ELSE q

(***************************************************************************)
(* DonorProfile.create_random: r = random.randint(1, total)                 *)
(***************************************************************************)
profiles == <<
    <<"consistent_major", 3>>, <<"consistent_leadership", 7>>,
    <<"consistent_annual", 15>>, <<"upgrading", 8>>, <<"downgrading", 5>>,
    <<"lybunt", 12>>, <<"sybunt", 10>>, <<"new_donor", 10>>,
    <<"sporadic", 15>>, <<"one_time", 10>>, <<"never", 5>> >>

ProfileTypes == {profiles[k][1] : k \in 1..Len(profiles)}

RECURSIVE Cumulative(_)
Cumulative(k) == IF k = 0 THEN 0 ELSE Cumulative(k - 1) + profiles[k][2]

total == Cumulative(Len(profiles))

create_random(r) ==
    IF \E k \in 1..Len(profiles) : r <= Cumulative(k)
    THEN profiles[CHOOSE k \in 1..Len(profiles) :
                      r <= Cumulative(k) /\ (k = 1 \/ r > Cumulative(k - 1))][1]
    ELSE "consistent_annual"

(***************************************************************************)
(* generate_constituent(idx).  d holds the draws: d.type_r (the type drawn  *)
(* by r = random.random()), d.capacity (random.uniform of the bucket, in     *)
(* mills), d.pick (the index random.choice takes) and d.r (the profile       *)
(* draw).                                                                    *)
(***************************************************************************)
\* f"LU-{idx:05d}"
ConstituentId(idx) == <<"LU", idx>>

\* round(capacity, 2): mills to cents
Round2(mills) == RoundDiv(mills, 10)

\* Lines 327-347: the officer and the tier from the unrounded capacity.
Portfolio(capacity, pick) ==
    IF capacity >= 500000000 THEN <<john_officer, "major">>
    ELSE IF capacity >= 100000000 THEN
        <<IF pick = 1 THEN john_officer ELSE sarah_manager, "leadership">>
    ELSE IF capacity >= 25000000 THEN
        <<IF pick = 1 THEN sarah_manager ELSE "", "leadership">>
    ELSE IF capacity >= 5000000 THEN <<"", "annual">>
    ELSE <<"", "">>

generate_constituent(idx, d) ==
    LET p == Portfolio(d.capacity, d.pick)
    IN  [constituent_id |-> ConstituentId(idx),
         constituent_type |-> d.type_r,
         estimated_capacity |-> Round2(d.capacity),
         assigned_officer_id |-> p[1],
         portfolio_tier |-> p[2],
         profile |-> create_random(d.r)]

(***************************************************************************)
(* create_gift(const_id, gift_date, amount, const_type); suffix is the      *)
(* value of random.randint(100, 999).  amount comes in mills and is stored  *)
(* in cents.                                                                 *)
(***************************************************************************)
\* int() in place of round(): the amount is cut, not rounded.
RoundAmountTruncated(amount) ==
    IF amount > 10000000 THEN (amount \div 100000) * 10000
    ELSE IF amount > 1000000 THEN (amount \div 10000) * 1000
    ELSE amount \div 10

\* Lines 513-519
RoundAmount(amount) ==
    IF amount > 10000000 THEN RoundDiv(amount, 100000) * 10000
    ELSE IF amount > 1000000 THEN RoundDiv(amount, 10000) * 1000
    ELSE RoundDiv(amount, 10)

GiftId(const_id, suffix) == <<"G", const_id, suffix>>

create_gift(const_id, gift_date, amount, const_type, suffix) ==
    [gift_id |-> GiftId(const_id, suffix),
     constituent_id |-> const_id,
     amount |-> RoundAmount(amount),
     gift_date |-> strftime(gift_date),
     recognition_amount |-> RoundAmount(amount)]

(***************************************************************************)
(* create_contact(const_id, contact_date, contact_type)                     *)
(***************************************************************************)
ContactId(const_id, suffix) == <<"C", const_id, suffix>>

create_contact(const_id, contact_date, contact_type, suffix) ==
    [contact_id |-> ContactId(const_id, suffix),
     constituent_id |-> const_id,
     contact_date |-> strftime(contact_date),
     contact_type |-> contact_type]

(***************************************************************************)
(* generate_gifts_for_constituent(constituent), one loop iteration at a     *)
(* time.  g holds its locals; GiftsSucc(g, w) is the set of states one step *)
(* can lead to, over the draws of that step (narrowed by w).                *)
(***************************************************************************)
GiftsInit(c) ==
    [pc |-> "entry", const |-> c, base_gift |-> 0, gifts |-> <<>>,
     i |-> 0, num_gifts |-> 0, start_date |-> 0,
     years_giving |-> 0, year_offset |-> 0, left |-> 0,
     last_gift_year |-> 0, multiplier |-> 10000, gifts_per_year |-> 0,
     unused |-> {}]

\* gifts.append(create_gift(const_id, gift_date, amount, const_type))
AppendGift(g, gift_date, amount, suffix) ==
    [g EXCEPT !.gifts = Append(@, create_gift(g.const.constituent_id, gift_date,
                                              amount, g.const.constituent_type,
                                              suffix))]

Return(g) == [g EXCEPT !.pc = "return"]

YearProfiles == {"lybunt", "sybunt", "upgrading", "downgrading", "consistent"}

\* Every profile counts its years back from 2026.
FirstYearAnchor(g) == AnchorYear

\* year = <first year> - year_offset
FirstYear(g) ==
    IF g.pc = "lybunt" THEN 2025
    ELSE IF g.pc = "sybunt" THEN g.last_gift_year
    ELSE AnchorYear

\* The floor of the other profiles, 2015, for the consistent ones too.
FloorYearAlways2015(g) == 2015

\* if year < <floor>: break
FloorYear(g) == IF g.pc = "consistent" THEN 2010 ELSE 2015

\* The downgrading branch with the upgrading branch's number of gifts.
GiftsInYearSameShape(g, w) ==
    IF g.pc = "lybunt" THEN RandInt(1, 3, w)
    ELSE IF g.pc = "sybunt" THEN RandInt(1, 2, w)
    ELSE IF g.pc \in {"upgrading", "downgrading"} THEN
        (IF g.year_offset > 3 THEN {1} ELSE RandInt(1, 3, w))
    ELSE {g.gifts_per_year}

\* the number of gifts of the year that starts
GiftsInYear(g, w) ==
    IF g.pc = "lybunt" THEN RandInt(1, 3, w)
    ELSE IF g.pc = "sybunt" THEN RandInt(1, 2, w)
    ELSE IF g.pc = "upgrading" THEN
        (IF g.year_offset > 3 THEN {1} ELSE RandInt(1, 3, w))
    ELSE IF g.pc = "downgrading" THEN RandInt(1, 2, w)
    ELSE {g.gifts_per_year}

\* month = random.randint(1, 12) if year < 2026 else 1
Months(g, year, w) ==
    IF g.pc \in {"lybunt", "sybunt"} THEN RandInt(1, 12, w)
    ELSE IF year < AnchorYear THEN RandInt(1, 12, w) ELSE {1}

\* if gift_date > today: continue
Skipped(g, gift_date) ==
    g.pc \in {"upgrading", "downgrading", "consistent"} /\ gift_date > today

\* random.uniform(lo, hi), in hundredths
Jitter(g, w) ==
    IF g.pc \in {"lybunt", "sybunt"} THEN RandInt(80, 120, w)
    ELSE RandInt(90, 110, w)

\* The two factors exchanged.
NextMultiplierSwapped(g) ==
    IF g.pc = "upgrading" THEN MulDiv(g.multiplier, 13, 10)
    ELSE IF g.pc = "downgrading" THEN MulDiv(g.multiplier, 7, 10)
    ELSE g.multiplier

\* multiplier *= 0.7 / multiplier *= 1.3, in ten-thousandths
NextMultiplier(g) ==
    IF g.pc = "upgrading" THEN MulDiv(g.multiplier, 7, 10)
    ELSE IF g.pc = "downgrading" THEN MulDiv(g.multiplier, 13, 10)
    ELSE g.multiplier

\* The head of "for year_offset in range(years_giving)" with g.year_offset the
\* iteration that starts: leave the loop, or draw the year's number of gifts.
YearHead(g, w) ==
    IF g.year_offset >= g.years_giving
       \/ FirstYear(g) - g.year_offset < FloorYear(g)
    THEN {Return(g)}
    ELSE {[g EXCEPT !.left = n] : n \in GiftsInYear(g, w)}

\* One iteration of the inner loop "for _ in range(...)": a gift of the year, or
\* none when its date is beyond today; after the year's last iteration, the
\* multiplier and the head of the next year.
YearStep(g, w) ==
    LET year == FirstYear(g) - g.year_offset
        After(h) ==
            IF h.left > 1 THEN {[h EXCEPT !.left = @ - 1]}
            ELSE YearHead([h EXCEPT !.left = 0,
                                    !.multiplier = NextMultiplier(h),
                                    !.year_offset = @ + 1], w)
    IN  UNION {
          LET gift_date == datetime(year, month, day)
              amount == MulDiv(MulDiv(g.base_gift, g.multiplier, 10000), u, 100)
          IN  IF Skipped(g, gift_date) THEN After(g)
              ELSE After(AppendGift(g, gift_date, amount, suffix))
          : month \in Months(g, year, w), day \in RandInt(1, 28, w),
            u \in Jitter(g, w), suffix \in CreateSuffixes }

\* Lines 395-405
NewDonorStep(g, w) ==
    UNION {
      LET gift_date == g.start_date + g.i * days
      IN  IF gift_date > today THEN {Return(g)}
          ELSE { LET h == AppendGift(g, gift_date, MulDiv(g.base_gift, u, 100),
                                     suffix)
                 IN  IF g.i + 1 >= g.num_gifts THEN Return(h)
                     ELSE [h EXCEPT !.i = @ + 1]
                 : u \in RandInt(80, 120, w), suffix \in CreateSuffixes }
      : days \in RandInt(60, 180, w) }

\* Lines 436-444
SporadicStep(g, w) ==
    { LET h == AppendGift([g EXCEPT !.unused = @ \ {year}, !.left = @ - 1],
                          datetime(year, month, day),
                          MulDiv(g.base_gift, u, 100), suffix)
      IN  IF h.left = 0 THEN Return(h) ELSE h
      : year \in SampleNext(g.unused, w), month \in RandInt(1, 12, w),
        day \in RandInt(1, 28, w), u \in RandInt(50, 150, w),
        suffix \in CreateSuffixes }

\* randint(36, 2000) in place of randint(365, 2000)
OneTimeGiftShort(g, w) ==
    { Return(AppendGift(g, today - days, MulDiv(g.base_gift, u, 100), suffix))
      : days \in RandInt(36, 2000, w), u \in RandInt(50, 150, w),
        suffix \in CreateSuffixes }

\* Lines 388-393
OneTimeGift(g, w) ==
    { Return(AppendGift(g, today - days, MulDiv(g.base_gift, u, 100), suffix))
      : days \in RandInt(365, 2000, w), u \in RandInt(50, 150, w),
        suffix \in CreateSuffixes }

\* randint(3, 12): the history reaches the 2015 floor.
LybuntYearsLong(w) == RandInt(3, 12, w)

\* Line 410: years_giving = random.randint(3, 10)
LybuntYears(w) == RandInt(3, 10, w)

\* Lines 373-386 and the first draws of each profile's branch.
GiftsEntry(g0, w) ==
    UNION {
      LET g == [g0 EXCEPT !.base_gift = MulDiv(g0.const.estimated_capacity, f, 10)]
          profile_type == g.const.profile
      IN  IF profile_type = "never" THEN {Return(g)}
          ELSE IF profile_type = "one_time" THEN OneTimeGift(g, w)
          ELSE IF profile_type = "new_donor" THEN
              { [g EXCEPT !.pc = "new_donor", !.start_date = today - days,
                          !.num_gifts = n]
                : days \in RandInt(30, 730, w), n \in RandInt(1, 3, w) }
          ELSE IF profile_type = "lybunt" THEN
              UNION { YearHead([g EXCEPT !.pc = "lybunt", !.years_giving = y], w)
                      : y \in LybuntYears(w) }
          ELSE IF profile_type = "sybunt" THEN
              UNION { YearHead([g EXCEPT !.pc = "sybunt", !.last_gift_year = l,
                                         !.years_giving = y], w)
                      : l \in RandInt(2020, 2023, w), y \in RandInt(2, 6, w) }
          ELSE IF profile_type = "sporadic" THEN
              { [g EXCEPT !.pc = "sporadic", !.num_gifts = n,
                          !.left = Min(n, 10), !.unused = 2015..2025]
                : n \in RandInt(3, 8, w) }
          ELSE IF profile_type \in {"upgrading", "downgrading"} THEN
              UNION { YearHead([g EXCEPT !.pc = profile_type,
                                         !.years_giving = y], w)
                      : y \in RandInt(4, 10, w) }
          ELSE
              UNION { YearHead([g EXCEPT !.pc = "consistent", !.years_giving = y,
                                         !.gifts_per_year = n], w)
                      : y \in RandInt(5, 15, w),
                        n \in IF profile_type \in {"consistent_major",
                                                   "consistent_leadership"}
                              THEN {2} ELSE RandInt(1, 3, w) }
      : f \in RandInt(1, 5, w) }

GiftsSucc(g, w) ==
    IF g.pc = "entry" THEN GiftsEntry(g, w)
    ELSE IF g.pc = "new_donor" THEN NewDonorStep(g, w)
    ELSE IF g.pc = "sporadic" THEN SporadicStep(g, w)
    ELSE IF g.pc \in YearProfiles THEN YearStep(g, w)
    ELSE {}

\* The lists generate_gifts_for_constituent can return from g on.
RECURSIVE GiftsFrom(_, _)
GiftsFrom(g, w) ==
    IF g.pc = "return" THEN {g.gifts}
    ELSE UNION {GiftsFrom(h, w) : h \in GiftsSucc(g, w)}

generate_gifts_for_constituent(c, w) == GiftsFrom(GiftsInit(c), w)

(***************************************************************************)
(* generate_contacts_for_constituent(constituent, gifts), one loop          *)
(* iteration at a time (gifts is not read).                                 *)
(***************************************************************************)
ContactsInit(c) ==
    [pc |-> "entry", const |-> c, contacts |-> <<>>,
     contacts_per_year |-> 0, year |-> 0, left |-> 0]

ContactYears == <<2023, 2024, 2025>>

\* contacts.append(create_contact(const_id, contact_date, contact_type))
AppendContact(g, contact_date, contact_type, suffix) ==
    [g EXCEPT !.contacts = Append(@, create_contact(g.const.constituent_id,
                                                    contact_date, contact_type,
                                                    suffix))]

\* Lines 594-600
ContactTypes(tier) ==
    IF tier = "major" THEN <<"meeting", "visit", "call", "email", "event">>
    ELSE IF tier = "leadership" THEN <<"call", "email", "meeting", "event">>
    ELSE <<"email", "call", "event", "phonathon">>

\* random.choice(seq)
Choice(seq, w) == {seq[k] : k \in RandInt(1, Len(seq), w)}

\* The tier is not looked at: every constituent gets the leadership rate.
ContactsPerYearFlat(tier, w) == RandInt(4, 8, w)

\* Lines 573-579
ContactsPerYear(tier, w) ==
    IF tier = "major" THEN RandInt(8, 15, w)
    ELSE IF tier = "leadership" THEN RandInt(4, 8, w)
    ELSE RandInt(1, 4, w)

\* The head of "for year in [2023, 2024, 2025]" with g.year the index of the
\* year that starts: num_contacts = max(1, contacts_per_year + randint(-2, 2)).
ContactYearHead(g, w) ==
    IF g.year > Len(ContactYears) THEN {Return(g)}
    ELSE {[g EXCEPT !.left = Max(1, g.contacts_per_year + j)]
          : j \in RandInt(-2, 2, w)}

\* Lines 586-602: one iteration of "for _ in range(num_contacts)".
ContactStep(g, w) ==
    LET After(h) ==
            IF h.left > 1 THEN {[h EXCEPT !.left = @ - 1]}
            ELSE ContactYearHead([h EXCEPT !.left = 0, !.year = @ + 1], w)
    IN  UNION {
          LET contact_date == datetime(ContactYears[g.year], month, day)
          IN  IF contact_date > today THEN After(g)
              ELSE After(AppendContact(g, contact_date, contact_type, suffix))
          : month \in RandInt(1, 12, w), day \in RandInt(1, 28, w),
            contact_type \in Choice(ContactTypes(g.const.portfolio_tier), w),
            suffix \in CreateSuffixes }

\* "if not tier" in place of "if not officer_id"
UnassignedByTier(c) == c.portfolio_tier = ""

\* Line 564: if not officer_id
Unassigned(c) == c.assigned_officer_id = ""

\* Lines 559-579
ContactsEntry(g, w) ==
    IF Unassigned(g.const) THEN
        {Return(g)}
        \cup { Return(AppendContact(g, datetime(2025, month, day), "phonathon",
                                    suffix))
               : month \in RandInt(1, 12, w), day \in RandInt(1, 28, w),
                 suffix \in CreateSuffixes }
    ELSE
        UNION { ContactYearHead([g EXCEPT !.pc = "years",
                                          !.contacts_per_year = n,
                                          !.year = 1], w)
                : n \in ContactsPerYear(g.const.portfolio_tier, w) }

ContactsSucc(g, w) ==
    IF g.pc = "entry" THEN ContactsEntry(g, w)
    ELSE IF g.pc = "years" THEN ContactStep(g, w)
    ELSE {}

\* The lists generate_contacts_for_constituent can return from g on.
RECURSIVE ContactsFrom(_, _)
ContactsFrom(g, w) ==
    IF g.pc = "return" THEN {g.contacts}
    ELSE UNION {ContactsFrom(h, w) : h \in ContactsSucc(g, w)}

generate_contacts_for_constituent(c, w) == ContactsFrom(ContactsInit(c), w)

(***************************************************************************)
(* The random source.  random.seed(42) (line 19) fixes the stream of values *)
(* the draws return.  tape.values is the part of the stream some run has    *)
(* drawn and another has not yet, tape.pos[r] the place of run r in it.     *)
(* The stream is kept only when two runs are compared (seeded); otherwise a *)
(* draw is a free choice.  The runs share nothing, so their interleaving    *)
(* does not matter: a run draws a new value only while it is less than      *)
(* MaxLag values ahead.                                                     *)
(***************************************************************************)
Runs == {1, 2}

TapeInit == [values |-> <<>>, pos |-> [r \in Runs |-> 0]]

\* A source that is not seeded: every draw of every run is a fresh value.
DrawnUnseeded(r, v, S) == v \in S

\* v is the value the next draw of run r returns, out of the values S.
Drawn(r, v, S) ==
    IF seeded /\ tape.pos[r] < Len(tape.values)
    THEN v = tape.values[tape.pos[r] + 1]
    ELSE v \in S /\ (seeded => Len(tape.values) < MaxLag)

\* Run r has drawn v: the stream moves on, and what every run has drawn is
\* dropped.
Consume(r, v) ==
    LET values == IF tape.pos[r] >= Len(tape.values)
                  THEN Append(tape.values, v) ELSE tape.values
        pos == [tape.pos EXCEPT ![r] = @ + 1]
    IN  tape' = IF ~seeded THEN tape
                ELSE IF \A q \in Runs : pos[q] >= 1
                THEN [values |-> Tail(values), pos |-> [q \in Runs |-> pos[q] - 1]]
                ELSE [values |-> values, pos |-> pos]

(***************************************************************************)
(* main()                                                                   *)
(***************************************************************************)
\* The draws of generate_constituent that main's runs take.
MainConstituentDraws ==
    [type_r : {"alumni"}, capacity : {50000000}, pick : {1, 2},
     r : {60, 95, 100}]

MainInit(n) ==
    [pc |-> "import", NUM_CONSTITUENTS |-> n,
     constituents |-> <<>>, i |-> 1,
     all_gifts |-> <<>>, all_contacts |-> <<>>,
     seen_ids |-> {}, unique_gifts |-> <<>>, unique_contacts |-> <<>>,
     generated_gifts |-> <<>>, generated_contacts |-> <<>>,
     files |-> <<>>]

Step(r, new) == runs' = [runs EXCEPT ![r] = new]

UnitIdle == UNCHANGED <<fn, arg, loc, ret>>

\* Line 19: random.seed(42) as the script starts.
Import(r) ==
    /\ runs[r].pc = "import"
    /\ Step(r, [runs[r] EXCEPT !.pc = "constituents"])
    /\ tape' = [tape EXCEPT !.pos[r] = 0]
    /\ UNCHANGED seeded /\ UnitIdle

\* Lines 655-657: one iteration of the loop over range(1, NUM_CONSTITUENTS + 1)
GenerateConstituent(r) ==
    LET m == runs[r] IN
    /\ m.pc = "constituents"
    /\ m.i <= m.NUM_CONSTITUENTS
    /\ \E d \in MainConstituentDraws :
          /\ Drawn(r, d, MainConstituentDraws)
          /\ Consume(r, d)
          /\ Step(r, [m EXCEPT !.constituents =
                                   Append(@, generate_constituent(m.i, d)),
                               !.i = @ + 1])
    /\ UNCHANGED seeded /\ UnitIdle

ConstituentsDone(r) ==
    LET m == runs[r] IN
    /\ m.pc = "constituents"
    /\ m.i > m.NUM_CONSTITUENTS
    /\ Step(r, [m EXCEPT !.pc = "gifts", !.i = 1])
    /\ UNCHANGED <<tape, seeded>> /\ UnitIdle

\* Lines 668-671: one iteration of "for const in constituents"
GenerateGifts(r) ==
    LET m == runs[r] IN
    /\ m.pc = "gifts"
    /\ m.i <= Len(m.constituents)
    /\ LET S == generate_gifts_for_constituent(m.constituents[m.i], 0) IN
       \E gifts \in S :
          /\ Drawn(r, gifts, S)
          /\ Consume(r, gifts)
          /\ Step(r, [m EXCEPT !.all_gifts = @ \o gifts, !.i = @ + 1])
    /\ UNCHANGED seeded /\ UnitIdle

\* Lines 675-676: seen_ids = set(); unique_gifts = []
GiftsDone(r) ==
    LET m == runs[r] IN
    /\ m.pc = "gifts"
    /\ m.i > Len(m.constituents)
    /\ Step(r, [m EXCEPT !.pc = "dedup_gifts", !.i = 1, !.seen_ids = {},
                         !.unique_gifts = <<>>, !.generated_gifts = m.all_gifts])
    /\ UNCHANGED <<tape, seeded>> /\ UnitIdle

\* The identifier rebuilt from the constituent before the gift's own.
RegenerateGiftIdOffByOne(g, suffix) ==
    [g EXCEPT !.gift_id = GiftId(ConstituentId(g.constituent_id[2] - 1), suffix)]

\* The identifier is assigned again without a new draw.
RegenerateGiftIdSame(g, suffix) == g

\* g["gift_id"] = f"G-{g['constituent_id']}-{random.randint(100, 999)}"
RegenerateGiftId(g, suffix) ==
    [g EXCEPT !.gift_id = GiftId(g.constituent_id, suffix)]

\* Lines 678-679: one iteration of "while g["gift_id"] in seen_ids"
RetryGiftId(r) ==
    LET m == runs[r] IN
    /\ m.pc = "dedup_gifts"
    /\ m.i <= Len(m.all_gifts)
    /\ m.all_gifts[m.i].gift_id \in m.seen_ids
    /\ \E suffix \in RetrySuffixes :
          /\ Drawn(r, suffix, RetrySuffixes)
          /\ Consume(r, suffix)
          /\ Step(r, [m EXCEPT !.all_gifts[m.i] = RegenerateGiftId(@, suffix)])
    /\ UNCHANGED seeded /\ UnitIdle

\* seen_ids.add left out
SeenGiftIdsForgotten(seen_ids, g) == seen_ids

\* Lines 680-681: seen_ids.add(g["gift_id"]); unique_gifts.append(g)
SeenGiftIds(seen_ids, g) == seen_ids \cup {g.gift_id}

KeepGift(r) ==
    LET m == runs[r] IN
    /\ m.pc = "dedup_gifts"
    /\ m.i <= Len(m.all_gifts)
    /\ m.all_gifts[m.i].gift_id \notin m.seen_ids
    /\ Step(r, [m EXCEPT !.seen_ids = SeenGiftIds(@, m.all_gifts[m.i]),
                         !.unique_gifts = Append(@, m.all_gifts[m.i]),
                         !.i = @ + 1])
    /\ UNCHANGED <<tape, seeded>> /\ UnitIdle

\* Line 682: all_gifts = unique_gifts (lines 686-689 group the gifts by
\* constituent for generate_contacts_for_constituent, which does not read them)
DedupGiftsDone(r) ==
    LET m == runs[r] IN
    /\ m.pc = "dedup_gifts"
    /\ m.i > Len(m.all_gifts)
    /\ Step(r, [m EXCEPT !.pc = "contacts", !.i = 1,
                         !.all_gifts = m.unique_gifts])
    /\ UNCHANGED <<tape, seeded>> /\ UnitIdle

\* Lines 691-694: one iteration of "for const in constituents"
GenerateContacts(r) ==
    LET m == runs[r] IN
    /\ m.pc = "contacts"
    /\ m.i <= Len(m.constituents)
    /\ LET S == generate_contacts_for_constituent(m.constituents[m.i], 0) IN
       \E contacts \in S :
          /\ Drawn(r, contacts, S)
          /\ Consume(r, contacts)
          /\ Step(r, [m EXCEPT !.all_contacts = @ \o contacts, !.i = @ + 1])
    /\ UNCHANGED seeded /\ UnitIdle

\* Lines 698-699: seen_ids = set(); unique_contacts = []
ContactsDone(r) ==
    LET m == runs[r] IN
    /\ m.pc = "contacts"
    /\ m.i > Len(m.constituents)
    /\ Step(r, [m EXCEPT !.pc = "dedup_contacts", !.i = 1, !.seen_ids = {},
                         !.unique_contacts = <<>>,
                         !.generated_contacts = m.all_contacts])
    /\ UNCHANGED <<tape, seeded>> /\ UnitIdle

\* The gift loop's f"G-..." copied into the contact loop
RegenerateContactIdAsGift(c, suffix) ==
    [c EXCEPT !.contact_id = GiftId(c.constituent_id, suffix)]

\* c["contact_id"] = f"C-{c['constituent_id']}-{random.randint(100, 999)}"
RegenerateContactId(c, suffix) ==
    [c EXCEPT !.contact_id = ContactId(c.constituent_id, suffix)]

\* Lines 701-702: one iteration of "while c["contact_id"] in seen_ids"
RetryContactId(r) ==
    LET m == runs[r] IN
    /\ m.pc = "dedup_contacts"
    /\ m.i <= Len(m.all_contacts)
    /\ m.all_contacts[m.i].contact_id \in m.seen_ids
    /\ \E suffix \in RetrySuffixes :
          /\ Drawn(r, suffix, RetrySuffixes)
          /\ Consume(r, suffix)
          /\ Step(r, [m EXCEPT !.all_contacts[m.i] =
                                   RegenerateContactId(@, suffix)])
    /\ UNCHANGED seeded /\ UnitIdle

\* Lines 703-704: seen_ids.add(c["contact_id"]); unique_contacts.append(c)
SeenContactIds(seen_ids, c) == seen_ids \cup {c.contact_id}

KeepContact(r) ==
    LET m == runs[r] IN
    /\ m.pc = "dedup_contacts"
    /\ m.i <= Len(m.all_contacts)
    /\ m.all_contacts[m.i].contact_id \notin m.seen_ids
    /\ Step(r, [m EXCEPT !.seen_ids = SeenContactIds(@, m.all_contacts[m.i]),
                         !.unique_contacts = Append(@, m.all_contacts[m.i]),
                         !.i = @ + 1])
    /\ UNCHANGED <<tape, seeded>> /\ UnitIdle

\* Line 705: all_contacts = unique_contacts
DedupContactsDone(r) ==
    LET m == runs[r] IN
    /\ m.pc = "dedup_contacts"
    /\ m.i > Len(m.all_contacts)
    /\ Step(r, [m EXCEPT !.pc = "write_constituents", !.i = 1,
                         !.all_contacts = m.unique_contacts])
    /\ UNCHANGED <<tape, seeded>> /\ UnitIdle

\* A written CSV: the header row and one row per record.
Csv(name, fieldnames, rows) ==
    [name |-> name, fieldnames |-> fieldnames, rows |-> rows]

\* {k: v for k, v in c.items() if not k.startswith("_")}
Public(c) == [k \in DOMAIN c \ {"profile"} |-> c[k]]

\* Lines 708-717: constituents[0] raises IndexError on an empty list.
WriteConstituents(r) ==
    LET m == runs[r] IN
    /\ m.pc = "write_constituents"
    /\ IF m.constituents = <<>>
       THEN Step(r, [m EXCEPT !.pc = "IndexError"])
       ELSE Step(r, [m EXCEPT
                !.pc = "write_gifts",
                !.files = Append(@, Csv("lakewood-constituents.csv",
                     DOMAIN m.constituents[1] \ {"profile"},
                     [k \in 1..Len(m.constituents) |-> Public(m.constituents[k])]))])
    /\ UNCHANGED <<tape, seeded>> /\ UnitIdle

\* Lines 720-727
WriteGifts(r) ==
    LET m == runs[r] IN
    /\ m.pc = "write_gifts"
    /\ Step(r, [m EXCEPT
           !.pc = "write_contacts",
           !.files = Append(@, Csv("lakewood-gifts.csv",
                IF m.all_gifts # <<>> THEN DOMAIN m.all_gifts[1] ELSE {},
                m.all_gifts))])
    /\ UNCHANGED <<tape, seeded>> /\ UnitIdle

\* Lines 730-737
WriteContacts(r) ==
    LET m == runs[r] IN
    /\ m.pc = "write_contacts"
    /\ Step(r, [m EXCEPT
           !.pc = "done",
           !.files = Append(@, Csv("lakewood-contacts.csv",
                IF m.all_contacts # <<>> THEN DOMAIN m.all_contacts[1] ELSE {},
                m.all_contacts))])
    /\ UNCHANGED <<tape, seeded>> /\ UnitIdle

Main(r) ==
    \/ Import(r)
    \/ GenerateConstituent(r)
    \/ ConstituentsDone(r)
    \/ GenerateGifts(r)
    \/ GiftsDone(r)
    \/ RetryGiftId(r)
    \/ KeepGift(r)
    \/ DedupGiftsDone(r)
    \/ GenerateContacts(r)
    \/ ContactsDone(r)
    \/ RetryContactId(r)
    \/ KeepContact(r)
    \/ DedupContactsDone(r)
    \/ WriteConstituents(r)
    \/ WriteGifts(r)
    \/ WriteContacts(r)

UnitOff == fn = NoValue /\ arg = NoValue /\ loc = NoValue /\ ret = <<>>

\* One run of the script, NUM_CONSTITUENTS configured to n.
Init ==
    /\ \E n \in 0..MaxConstituents : runs = [r \in Runs |-> MainInit(n)]
    /\ tape = TapeInit
    /\ seeded = FALSE
    /\ UnitOff

Next == Main(1)

Spec == Init /\ [][Next]_vars

\* Two runs of the script with the same seed and the same configuration.
InitRuns ==
    /\ \E n \in 0..MaxConstituents : runs = [r \in Runs |-> MainInit(n)]
    /\ tape = TapeInit
    /\ seeded = TRUE
    /\ UnitOff

NextRuns == \E r \in Runs : Main(r)

SpecRuns == InitRuns /\ [][NextRuns]_vars

\* A draw of the gift loop, or of the contact loop, that gives a suffix not
\* seen yet.
FreshGiftId(r) ==
    /\ RetryGiftId(r)
    /\ runs'[r].all_gifts[runs[r].i].gift_id \notin runs[r].seen_ids

FreshContactId(r) ==
    /\ RetryContactId(r)
    /\ runs'[r].all_contacts[runs[r].i].contact_id \notin runs[r].seen_ids

\* main goes on while it has a step to take, and a random source that is
\* fair does not keep a suffix that is free from a loop for ever.
SpecFair ==
    /\ Init
    /\ [][Next]_vars
    /\ WF_vars(Next)
    /\ WF_vars(FreshGiftId(1))
    /\ WF_vars(FreshContactId(1))

(***************************************************************************)
(* One call of one function, on arguments main need not pass.  The lists    *)
(* gifts and contacts are only appended to and never read by the functions  *)
(* that build them: loc keeps the element appended last and the number of   *)
(* elements appended.                                                       *)
(***************************************************************************)
NUM_CONSTITUENTS == 800

\* random.uniform(lo, hi) of the five capacity buckets, in mills
CapacityDraws ==
    {1000000, 4999994, 4999996, 5000000, 24999994, 24999996, 25000000,
     99999994, 99999996, 100000000, 499999994, 499999996, 500000000,
     2000000000}

ConstituentDraws ==
    [type_r : ConstituentTypes, capacity : CapacityDraws, pick : {1, 2},
     r : 1..total]

\* Raw amounts passed to create_gift, in mills
RawAmounts ==
    {545, 555, 55678, 999994, 1000000, 1000001, 1005000, 1015000, 4321000,
     4326000, 9995000, 10000000, 10000001, 10050000, 10080000, 10150000,
     12345670, 750000000}

CreateGiftArgs ==
    [const_id : {ConstituentId(1), ConstituentId(NUM_CONSTITUENTS)},
     gift_date : {today - 2000, today}, amount : RawAmounts,
     const_type : {"alumni", "foundation"}]

\* estimated_capacity of the constituents passed to
\* generate_gifts_for_constituent, in cents
GiftCapacities == {100000, 3000000, 200000000}

GiftsArgs ==
    {c \in [constituent_id : {ConstituentId(1)},
            constituent_type : {"alumni", "corporation"},
            estimated_capacity : GiftCapacities, assigned_officer_id : {""},
            portfolio_tier : {""}, profile : ProfileTypes] :
        c.constituent_type = "alumni" \/ c.profile \in {"never", "one_time"}}

ContactsArgs ==
    [constituent_id : {ConstituentId(1)}, constituent_type : {"alumni"},
     estimated_capacity : {100000}, assigned_officer_id : Officers \cup {""},
     portfolio_tier : Tiers, profile : {"never"}]

\* The element appended last, if any.
Last(seq) == IF seq = <<>> THEN <<>> ELSE <<seq[Len(seq)]>>

CallGenerateConstituent ==
    /\ fn = "generate_constituent"
    /\ ret = <<>>
    /\ \E d \in ConstituentDraws : ret' = <<generate_constituent(arg, d)>>
    /\ UNCHANGED <<runs, tape, seeded, fn, arg, loc>>

CallCreateGift ==
    /\ fn = "create_gift"
    /\ ret = <<>>
    /\ \E suffix \in CreateSuffixes :
          ret' = <<create_gift(arg.const_id, arg.gift_date, arg.amount,
                               arg.const_type, suffix)>>
    /\ UNCHANGED <<runs, tape, seeded, fn, arg, loc>>

StepGifts ==
    /\ fn = "generate_gifts_for_constituent"
    /\ \E h \in GiftsSucc(loc.frame, Width) :
          loc' = [frame |-> [h EXCEPT !.gifts = Last(@)],
                  appended |-> loc.appended + Len(h.gifts)
                                            - Len(loc.frame.gifts)]
    /\ UNCHANGED <<runs, tape, seeded, fn, arg, ret>>

StepContacts ==
    /\ fn = "generate_contacts_for_constituent"
    /\ \E h \in ContactsSucc(loc.frame, Width) :
          loc' = [frame |-> [h EXCEPT !.contacts = Last(@)],
                  appended |-> loc.appended + Len(h.contacts)
                                            - Len(loc.frame.contacts)]
    /\ UNCHANGED <<runs, tape, seeded, fn, arg, ret>>

InitCall ==
    /\ runs = [r \in Runs |-> MainInit(0)]
    /\ tape = TapeInit
    /\ seeded = FALSE
    /\ ret = <<>>
    /\ \/ /\ fn = "generate_constituent"
          /\ arg \in {1, NUM_CONSTITUENTS}
          /\ loc = NoValue
       \/ /\ fn = "create_gift"
          /\ arg \in CreateGiftArgs
          /\ loc = NoValue
       \/ /\ fn = "generate_gifts_for_constituent"
          /\ arg \in GiftsArgs
          /\ loc = [frame |-> GiftsInit(arg), appended |-> 0]
       \/ /\ fn = "generate_contacts_for_constituent"
          /\ arg \in ContactsArgs
          /\ loc = [frame |-> ContactsInit(arg), appended |-> 0]

NextCall ==
    \/ CallGenerateConstituent
    \/ CallCreateGift
    \/ StepGifts
    \/ StepContacts

SpecCall == InitCall /\ [][NextCall]_vars

(***************************************************************************)
(* One call of generate_gifts_for_constituent or of                        *)
(* generate_contacts_for_constituent, with a reading of the list it builds. *)
(* loc.seen is what has been read of the records appended so far; watch     *)
(* names what is read: "years" the calendar years and the number of records *)
(* in each, "amounts" the range of the amounts per year, "spacing" the days *)
(* between a gift and the gift appended before it.                          *)
(***************************************************************************)
SeenInit(watch) ==
    [watch |-> watch, appended |-> 0,
     \* the year of the first record and of the last, the number of records
     \* appended in a row in the last year, the number of such rows
     first_year |-> 0, year |-> 0, in_year |-> 0, years |-> 0,
     \* the differences year(record before) - year(record)
     steps |-> {},
     \* the rows that have ended
     closed |-> {},
     \* the least and the greatest amount in the last year, and in the years
     \* before it in the list
     lo |-> 0, hi |-> 0, closed_lo |-> 0, closed_hi |-> 0,
     \* the date of the first gift; the days from the gift before the last
     \* to the last
     first |-> <<>>, since_prev |-> 0]

\* int(date[:4]) of a "%Y-%m-%d" date
YearOf(date) == date[1]

\* datetime.strptime(date, "%Y-%m-%d")
strptime(date) == datetime(date[1], date[2], date[3])

\* A year of a gift history is told by whether it lies more than 3 years
\* before the anchor year.
GiftYearClass(year) == AnchorYear - year > 3

\* The reading after a record of the given date and amount is appended to a
\* list whose last record was dated last (<<>>: an empty list); closing is
\* what the row of seen.year is remembered by if it ends.
See(seen, last, date, amount, closing) ==
    LET y == YearOf(date)
        counted == [seen EXCEPT !.appended = @ + 1]
    IN  IF seen.watch = "spacing" THEN
            [counted EXCEPT
                !.first = IF last = <<>> THEN <<date>> ELSE @,
                !.since_prev = IF last = <<>> THEN 0
                               ELSE strptime(date) - strptime(last[1])]
        ELSE IF last = <<>> THEN
            [counted EXCEPT !.first_year = y, !.year = y, !.in_year = 1,
                            !.years = 1, !.lo = amount, !.hi = amount]
        ELSE IF y = seen.year THEN
            [counted EXCEPT !.in_year = @ + 1, !.steps = @ \cup {0},
                            !.lo = Min(@, amount), !.hi = Max(@, amount)]
        ELSE
            [counted EXCEPT
                !.year = y, !.in_year = 1, !.years = @ + 1,
                !.steps = @ \cup {seen.year - y},
                !.closed = @ \cup {<<closing, seen.in_year>>},
                !.lo = amount, !.hi = amount,
                !.closed_lo = IF seen.years = 1 THEN seen.lo
                              ELSE Min(@, seen.lo),
                !.closed_hi = IF seen.years = 1 THEN seen.hi
                              ELSE Max(@, seen.hi)]

\* The amounts are read only under "amounts".
SeeGift(seen, last, gift) ==
    See(seen, IF last = <<>> THEN <<>> ELSE <<last[1].gift_date>>,
        gift.gift_date, IF seen.watch = "amounts" THEN gift.amount ELSE 0,
        GiftYearClass(seen.year))

ContactYearClass(year) == year

SeeContact(seen, last, contact) ==
    See(seen, IF last = <<>> THEN <<>> ELSE <<last[1].contact_date>>,
        contact.contact_date, 0, ContactYearClass(seen.year))

\* generate_constituent(1) with a capacity of 600,000 and the profile
\* consistent_major.
MajorDonor ==
    generate_constituent(1, [type_r |-> "alumni", capacity |-> 600000000,
                             pick |-> 1, r |-> 1])

SeenGiftsArgs ==
    {<<c, "years">> : c \in {a \in GiftsArgs : a.constituent_type = "alumni"}
                            \cup {MajorDonor}}
    \cup {<<c, "amounts">> : c \in {a \in GiftsArgs :
              /\ a.constituent_type = "alumni"
              /\ a.profile \in {"upgrading", "downgrading"}}}
    \cup {<<c, "spacing">> : c \in {a \in GiftsArgs :
              a.constituent_type = "alumni" /\ a.profile = "new_donor"}}

StepGiftsSeen ==
    /\ fn = "generate_gifts_for_constituent"
    /\ \E h \in GiftsSucc(loc.frame, Width) :
          loc' = [frame |-> [h EXCEPT !.gifts = Last(@)],
                  seen |-> IF Len(h.gifts) > Len(loc.frame.gifts)
                           THEN SeeGift(loc.seen, loc.frame.gifts,
                                        h.gifts[Len(h.gifts)])
                           ELSE loc.seen]
    /\ UNCHANGED <<runs, tape, seeded, fn, arg, ret>>

StepContactsSeen ==
    /\ fn = "generate_contacts_for_constituent"
    /\ \E h \in ContactsSucc(loc.frame, Width) :
          loc' = [frame |-> [h EXCEPT !.contacts = Last(@)],
                  seen |-> IF Len(h.contacts) > Len(loc.frame.contacts)
                           THEN SeeContact(loc.seen, loc.frame.contacts,
                                           h.contacts[Len(h.contacts)])
                           ELSE loc.seen]
    /\ UNCHANGED <<runs, tape, seeded, fn, arg, ret>>

InitSeen ==
    /\ runs = [r \in Runs |-> MainInit(0)]
    /\ tape = TapeInit
    /\ seeded = FALSE
    /\ ret = <<>>
    /\ \/ /\ fn = "generate_gifts_for_constituent"
          /\ \E a \in SeenGiftsArgs :
                /\ arg = a[1]
                /\ loc = [frame |-> GiftsInit(a[1]), seen |-> SeenInit(a[2])]
       \/ /\ fn = "generate_contacts_for_constituent"
          /\ arg \in ContactsArgs
          /\ loc = [frame |-> ContactsInit(arg), seen |-> SeenInit("years")]

NextSeen ==
    \/ StepGiftsSeen
    \/ StepContactsSeen

SpecSeen == InitSeen /\ [][NextSeen]_vars

(***************************************************************************)
(* Properties                                                               *)
(***************************************************************************)
\* The stages of main after the gift pass and after the contact pass.
AfterContactDedup ==
    {"write_constituents", "write_gifts", "write_contacts", "done", "IndexError"}
AfterGiftDedup == {"contacts", "dedup_contacts"} \cup AfterContactDedup

Distinct(records, id) ==
    \A a, b \in 1..Len(records) : a # b => records[a][id] # records[b][id]

Regenerated(before, after) ==
    \E k \in 1..Len(after) : k <= Len(before) /\ after[k] # before[k]

\* C1: once the gift pass has finished no two gifts share a gift_id, and once
\* the contact pass has finished no two contacts share a contact_id, whatever
\* suffixes were drawn.
C1_IdentifiersUnique ==
    LET m == runs[1] IN
    /\ m.pc \in AfterGiftDedup => Distinct(m.all_gifts, "gift_id")
    /\ m.pc \in AfterContactDedup => Distinct(m.all_contacts, "contact_id")

\* Both passes have finished and each has regenerated an identifier.
C1_Witness ==
    LET m == runs[1] IN
    /\ m.pc = "done"
    /\ Regenerated(m.generated_gifts, m.all_gifts)
    /\ Regenerated(m.generated_contacts, m.all_contacts)

\* The identifier is <prefix>-<constituent_id>-<suffix> of the record's own
\* constituent, which is one of the generated constituents.
RefersTo(record, id, prefix, constituents) ==
    /\ \E k \in 1..Len(constituents) :
          record.constituent_id = constituents[k].constituent_id
    /\ record[id][1] = prefix
    /\ record[id][2] = record.constituent_id
    /\ record[id][3] \in SuffixLo..SuffixHi

\* C2: every gift and every contact, at every point of main and so in the
\* final collections, refers to a generated constituent and carries that
\* constituent's identifier inside its own, also after regenerations.
C2_ForeignReferences ==
    LET m == runs[1] IN
    /\ \A k \in 1..Len(m.all_gifts) :
          RefersTo(m.all_gifts[k], "gift_id", "G", m.constituents)
    /\ \A k \in 1..Len(m.all_contacts) :
          RefersTo(m.all_contacts[k], "contact_id", "C", m.constituents)

\* The final collections hold a gift and a contact whose identifiers were
\* regenerated.
C2_Witness ==
    LET m == runs[1] IN
    /\ m.pc \in AfterContactDedup
    /\ \E k \in 1..Len(m.all_gifts) :
          m.all_gifts[k].gift_id # m.generated_gifts[k].gift_id
    /\ \E k \in 1..Len(m.all_contacts) :
          m.all_contacts[k].contact_id # m.generated_contacts[k].contact_id

\* <<year, month, day>> is not later than 2026-01-29.
NotAfterAnchor(date) ==
    \/ date[1] < AnchorYear
    \/ date[1] = AnchorYear /\ date[2] = 1 /\ date[3] <= 29

\* C3: no gift that generate_gifts_for_constituent appends and no contact that
\* generate_contacts_for_constituent appends is dated after 2026-01-29.
C3_NoDateAfterAnchor ==
    /\ fn = "generate_gifts_for_constituent" =>
          \A k \in 1..Len(loc.frame.gifts) :
              NotAfterAnchor(loc.frame.gifts[k].gift_date)
    /\ fn = "generate_contacts_for_constituent" =>
          \A k \in 1..Len(loc.frame.contacts) :
              NotAfterAnchor(loc.frame.contacts[k].contact_date)

\* A gift of the anchor year, on the last day a draw can give.
C3_Witness ==
    /\ fn = "generate_gifts_for_constituent"
    /\ loc.frame.gifts # <<>>
    /\ loc.frame.gifts[1].gift_date = <<AnchorYear, 1, 28>>

\* The table of the tiers and officers, on a capacity in cents.
TierOfficerTable(capacity, tier, officer) ==
    IF capacity >= 50000000 THEN tier = "major" /\ officer = john_officer
    ELSE IF capacity >= 10000000 THEN
        tier = "leadership" /\ officer \in {john_officer, sarah_manager}
    ELSE IF capacity >= 2500000 THEN
        tier = "leadership" /\ officer \in {sarah_manager, ""}
    ELSE IF capacity >= 500000 THEN tier = "annual" /\ officer = ""
    ELSE tier = "" /\ officer = ""

\* C4: the tier and the officer of a returned constituent match the table
\* applied to the record's estimated_capacity.
C4_TierOfficerMatchesTable ==
    (fn = "generate_constituent" /\ ret # <<>>) =>
        TierOfficerTable(ret[1].estimated_capacity, ret[1].portfolio_tier,
                         ret[1].assigned_officer_id)

\* C5: generate_gifts_for_constituent returns no gift for the profile "never"
\* and exactly one for "one_time", dated 365 to 2000 days before the anchor.
C5_NeverAndOneTime ==
    (fn = "generate_gifts_for_constituent" /\ loc.frame.pc = "return") =>
        /\ arg.profile = "never" =>
              loc.appended = 0 /\ loc.frame.gifts = <<>>
        /\ arg.profile = "one_time" =>
              /\ loc.appended = 1
              /\ Len(loc.frame.gifts) = 1
              /\ LET d == loc.frame.gifts[1].gift_date
                 IN  today - datetime(d[1], d[2], d[3]) \in 365..2000

\* A one_time constituent of a corporation got its gift 365 days before the
\* anchor.
C5_Witness ==
    /\ fn = "generate_gifts_for_constituent"
    /\ loc.frame.pc = "return"
    /\ arg.profile = "one_time"
    /\ arg.constituent_type = "corporation"
    /\ loc.appended = 1
    /\ loc.frame.gifts[1].gift_date = strftime(today - 365)

\* C6: a constituent without an officer gets at most one contact, and that
\* one by phonathon, whatever its tier.
C6_UnassignedContacts ==
    (fn = "generate_contacts_for_constituent" /\ arg.assigned_officer_id = "") =>
        /\ loc.appended <= 1
        /\ \A k \in 1..Len(loc.frame.contacts) :
              loc.frame.contacts[k].contact_type = "phonathon"

\* A constituent of tier major without an officer got its one contact.
C6_Witness ==
    /\ fn = "generate_contacts_for_constituent"
    /\ arg.assigned_officer_id = ""
    /\ arg.portfolio_tier = "major"
    /\ loc.frame.pc = "return"
    /\ loc.appended = 1

\* The stages of main after the constituents and the gifts were generated.
AfterConstituents ==
    {"gifts", "dedup_gifts"} \cup AfterGiftDedup
AfterGifts == {"dedup_gifts"} \cup AfterGiftDedup

Abs(x) == IF x < 0 THEN -x ELSE x

\* C8: create_gift rounds an amount above 10,000 to the nearest 100, one
\* above 1,000 and not above 10,000 to the nearest 10, any other to the
\* nearest cent; 12,345.67 gives 12,300, 4,321 gives 4,320 and 55.678 gives
\* 55.68; recognition_amount is the rounded amount.  (The raw amount is in
\* mills, the stored one in cents.)
C8_AmountRounding ==
    (fn = "create_gift" /\ ret # <<>>) =>
        LET raw == arg.amount
            amount == ret[1].amount
        IN  /\ raw > 10000000 =>
                  amount % 10000 = 0 /\ Abs(10 * amount - raw) <= 50000
            /\ (raw > 1000000 /\ raw <= 10000000) =>
                  amount % 1000 = 0 /\ Abs(10 * amount - raw) <= 5000
            /\ raw <= 1000000 => Abs(10 * amount - raw) <= 5
            /\ raw = 12345670 => amount = 1230000
            /\ raw = 4321000 => amount = 432000
            /\ raw = 55678 => amount = 5568
            /\ ret[1].recognition_amount = amount

\* create_gift has rounded 10,080 up to 10,100.
C8_Witness ==
    /\ fn = "create_gift"
    /\ ret # <<>>
    /\ arg.amount = 10080000
    /\ ret[1].amount = 1010000

\* The record but for its identifier, and the identifier but for its suffix.
SameButSuffix(before, after, id) ==
    /\ [before EXCEPT ![id] = after[id]] = after
    /\ before[id][1] = after[id][1]
    /\ before[id][2] = after[id][2]

\* What a pass may do to the records it was given.
PassFrame(before, after, id) ==
    /\ Len(after) = Len(before)
    /\ \A k \in 1..Len(after) :
          /\ SameButSuffix(before[k], after[k], id)
          /\ before[k][id] \notin {after[j][id] : j \in 1..(k - 1)}
                => after[k] = before[k]

\* C9: a pass keeps every record, in its order, and changes nothing but the
\* suffix of the identifier of a record whose identifier was seen before;
\* this holds of the records handled so far at every point of the pass, and
\* of all of them once it has finished.
C9_OnlySuffixesChange ==
    LET m == runs[1] IN
    /\ m.pc = "dedup_gifts" =>
          PassFrame(SubSeq(m.generated_gifts, 1, Len(m.unique_gifts)),
                    m.unique_gifts, "gift_id")
    /\ m.pc \in AfterGiftDedup =>
          PassFrame(m.generated_gifts, m.all_gifts, "gift_id")
    /\ m.pc = "dedup_contacts" =>
          PassFrame(SubSeq(m.generated_contacts, 1, Len(m.unique_contacts)),
                    m.unique_contacts, "contact_id")
    /\ m.pc \in AfterContactDedup =>
          PassFrame(m.generated_contacts, m.all_contacts, "contact_id")

\* Both passes have finished; each kept one identifier and regenerated
\* another.
C9_Witness ==
    LET m == runs[1] IN
    /\ m.pc = "done"
    /\ \E j, k \in 1..Len(m.all_gifts) :
          /\ m.all_gifts[j] = m.generated_gifts[j]
          /\ m.all_gifts[k] # m.generated_gifts[k]
    /\ \E j, k \in 1..Len(m.all_contacts) :
          /\ m.all_contacts[j] = m.generated_contacts[j]
          /\ m.all_contacts[k] # m.generated_contacts[k]

Written(m, name) == \E k \in 1..Len(m.files) : m.files[k].name = name

\* C10: the output step of an empty collection does not abort: main never
\* ends in IndexError, and each of the three files is written once its step
\* is passed.
C10_EmptyCollectionsWritten ==
    LET m == runs[1] IN
    /\ m.pc # "IndexError"
    /\ m.pc \in {"write_gifts", "write_contacts", "done"} =>
          Written(m, "lakewood-constituents.csv")
    /\ m.pc \in {"write_contacts", "done"} => Written(m, "lakewood-gifts.csv")
    /\ m.pc = "done" => Written(m, "lakewood-contacts.csv")

\* The call of generate_gifts_for_constituent has returned / is under way,
\* with the given reading.
GiftsSeen(watch) ==
    fn = "generate_gifts_for_constituent" /\ loc.seen.watch = watch

\* C11: for a consistent_major constituent (for one, generate_constituent's
\* record of capacity 600,000: tier major, the major gifts officer) the
\* gifts lie in the Y consecutive years that end with 2026, Y the number of
\* years drawn from 5..15, two in each year, 2*Y in all, none after the
\* anchor.
C11_ConsistentMajorHistory ==
    (GiftsSeen("years") /\ arg.profile = "consistent_major") =>
        LET seen == loc.seen
            g == loc.frame
        IN  /\ arg = MajorDonor =>
                  /\ arg.estimated_capacity = 60000000
                  /\ arg.portfolio_tier = "major"
                  /\ arg.assigned_officer_id = john_officer
            /\ seen.appended > 0 => seen.first_year = AnchorYear
            /\ seen.steps \subseteq {0, 1}
            /\ \A row \in seen.closed : row[2] = 2
            /\ seen.in_year <= 2
            /\ \A k \in 1..Len(g.gifts) : NotAfterAnchor(g.gifts[k].gift_date)
            /\ g.pc = "return" =>
                  /\ g.years_giving \in 5..15
                  /\ seen.years = g.years_giving
                  /\ seen.year = AnchorYear - g.years_giving + 1
                  /\ seen.in_year = 2
                  /\ seen.appended = 2 * g.years_giving

\* The record of capacity 600,000 got 30 gifts, over the 15 years from 2012.
C11_Witness ==
    /\ GiftsSeen("years")
    /\ arg = MajorDonor
    /\ loc.frame.pc = "return"
    /\ loc.seen.appended = 30
    /\ loc.seen.year = 2012

\* C12: a new_donor constituent gets 1 to 3 gifts, the first dated 30 to 730
\* days before the anchor, each later one 60 to 180 days after the gift
\* appended before it, and none once a computed date is beyond the anchor.
C12_NewDonorSpacing ==
    (GiftsSeen("spacing") /\ arg.profile = "new_donor") =>
        LET seen == loc.seen
            g == loc.frame
        IN  /\ seen.appended <= 3
            /\ g.pc = "return" => seen.appended \in 1..g.num_gifts
            /\ seen.appended >= 1 =>
                  today - strptime(seen.first[1]) \in 30..730
            /\ seen.appended >= 2 => seen.since_prev \in 60..180
            /\ \A k \in 1..Len(g.gifts) : NotAfterAnchor(g.gifts[k].gift_date)

\* The years of an upgrading or downgrading history: they start at the
\* anchor year and step back one at a time; as many as were drawn from
\* 4..10, none before 2015.
TrendYears ==
    LET seen == loc.seen
        g == loc.frame
    IN  /\ seen.appended > 0 => seen.first_year = AnchorYear /\ seen.year >= 2015
        /\ seen.steps \subseteq {0, 1}
        /\ g.pc = "return" =>
              g.years_giving \in 4..10 /\ seen.years = g.years_giving
        /\ (g.pc = "upgrading" /\ g.year_offset > 0) => g.multiplier < 10000
        /\ (g.pc = "downgrading" /\ g.year_offset > 0) => g.multiplier > 10000

\* The years read so far, the last one included, as (more than 3 years
\* before the anchor year, gifts in the year).
YearsRead ==
    loc.seen.closed
    \cup (IF loc.seen.appended = 0 THEN {}
          ELSE {<<GiftYearClass(loc.seen.year), loc.seen.in_year>>})

\* C13 as stated: upgrading and downgrading histories have the same years
\* (4 to 10, back from the anchor year, none before 2015) and in both no
\* year more than 3 years before the anchor year has more than one gift.
C13_SameShape ==
    (GiftsSeen("years") /\ arg.profile \in {"upgrading", "downgrading"}) =>
        /\ TrendYears
        /\ \A row \in YearsRead : row[1] => row[2] <= 1

\* C13, amended: upgrading and downgrading histories have the same years;
\* an upgrading year has 1 to 3 gifts, and exactly 1 when it is more than 3
\* years before the anchor year; a downgrading year has 1 or 2 gifts whatever
\* its distance from the anchor year.
C13_ShapeByProfile ==
    (GiftsSeen("years") /\ arg.profile \in {"upgrading", "downgrading"}) =>
        /\ TrendYears
        /\ arg.profile = "upgrading" =>
              /\ \A row \in YearsRead : row[2] <= (IF row[1] THEN 1 ELSE 3)
              /\ \A row \in loc.seen.closed : row[2] >= 1
        /\ arg.profile = "downgrading" =>
              /\ \A row \in YearsRead : row[2] <= 2
              /\ \A row \in loc.seen.closed : row[2] >= 1

\* A downgrading history of 10 years has returned, with two gifts in a year
\* more than 3 years before the anchor year.
C13_Witness ==
    /\ GiftsSeen("years")
    /\ arg.profile = "downgrading"
    /\ loc.frame.pc = "return"
    /\ loc.seen.years = 10
    /\ <<TRUE, 2>> \in YearsRead

\* C14: of two gifts of an upgrading constituent in different years the one
\* of the later year has the greater or an equal amount, of two gifts of a
\* downgrading constituent the smaller or an equal one, after rounding and
\* for every jitter; every amount is above zero.  (The years are appended
\* from the latest back, so the years read before the last one are later.)
C14_AmountTrend ==
    (GiftsSeen("amounts") /\ arg.profile \in {"upgrading", "downgrading"}) =>
        LET seen == loc.seen IN
        /\ seen.steps \subseteq {0, 1}
        /\ seen.appended > 0 => seen.lo > 0 /\ seen.lo <= seen.hi
        /\ seen.years > 1 =>
              /\ seen.closed_lo > 0
              /\ arg.profile = "upgrading" => seen.hi <= seen.closed_lo
              /\ arg.profile = "downgrading" => seen.lo >= seen.closed_hi

\* An upgrading history of 10 years has returned: the amounts of its first
\* year differ, and are all below those of the later years.
C14_Witness ==
    /\ GiftsSeen("amounts")
    /\ arg.profile = "upgrading"
    /\ loc.frame.pc = "return"
    /\ loc.seen.years = 10
    /\ loc.seen.closed_lo < loc.seen.closed_hi
    /\ loc.seen.hi < loc.seen.closed_lo

\* C15: a lybunt constituent has a gift in 2025 and none in 2026; its gifts
\* lie in the consecutive years that end with 2025, 3 to 10 of them (as many
\* as were drawn), none before 2015, with 1 to 3 gifts in each.
C15_LybuntHistory ==
    (GiftsSeen("years") /\ arg.profile = "lybunt") =>
        LET seen == loc.seen
            g == loc.frame
        IN  /\ seen.appended > 0 =>
                  /\ seen.first_year = AnchorYear - 1
                  /\ seen.year \in 2015..(AnchorYear - 1)
            /\ seen.steps \subseteq {0, 1}
            /\ \A row \in seen.closed : row[2] \in 1..3
            /\ seen.in_year <= 3
            /\ g.pc = "return" =>
                  /\ seen.appended >= 1
                  /\ seen.years \in 3..10
                  /\ seen.years = g.years_giving
                  /\ seen.year = AnchorYear - seen.years

\* A lybunt history of the 10 years 2016..2025 has returned, with years of
\* one gift and years of three.
C15_Witness ==
    /\ GiftsSeen("years")
    /\ arg.profile = "lybunt"
    /\ loc.frame.pc = "return"
    /\ loc.seen.year = 2016
    /\ {row[2] : row \in loc.seen.closed} = {1, 3}

ContactsSeen ==
    fn = "generate_contacts_for_constituent" /\ loc.seen.watch = "years"

\* The base rates and the channels of a tier.
TierRates(tier) ==
    IF tier = "major" THEN 8..15
    ELSE IF tier = "leadership" THEN 4..8 ELSE 1..4

TierChannels(tier) ==
    IF tier = "major" THEN {"meeting", "visit", "call", "email", "event"}
    ELSE IF tier = "leadership" THEN {"call", "email", "meeting", "event"}
    ELSE {"email", "call", "event", "phonathon"}

\* C16: a constituent with an officer gets in each of 2023, 2024 and 2025 a
\* number n of contacts with max(1, b - 2) <= n <= b + 2, b the one base
\* rate drawn for it from its tier's range; none is dropped, and the channel
\* of each is one of its tier's.
C16_AssignedContacts ==
    (ContactsSeen /\ arg.assigned_officer_id # "" /\ loc.frame.pc # "entry") =>
        LET seen == loc.seen
            g == loc.frame
            b == g.contacts_per_year
        IN  /\ b \in TierRates(arg.portfolio_tier)
            /\ seen.appended > 0 => seen.first_year = 2023
            /\ seen.steps \subseteq {0, -1}
            /\ \A row \in seen.closed :
                  /\ row[1] \in {2023, 2024}
                  /\ Max(1, b - 2) <= row[2] /\ row[2] <= b + 2
            /\ seen.in_year <= b + 2
            /\ \A k \in 1..Len(g.contacts) :
                  g.contacts[k].contact_type \in TierChannels(arg.portfolio_tier)
            /\ g.pc = "return" =>
                  /\ {row[1] : row \in seen.closed} = {2023, 2024}
                  /\ seen.year = 2025
                  /\ seen.years = 3
                  /\ Max(1, b - 2) <= seen.in_year

\* A major constituent of base rate 15 got 17 contacts in 2023 and 13 in
\* 2025.
C16_Witness ==
    /\ ContactsSeen
    /\ arg.assigned_officer_id = john_officer
    /\ arg.portfolio_tier = "major"
    /\ loc.frame.pc = "return"
    /\ loc.frame.contacts_per_year = 15
    /\ <<2023, 17>> \in loc.seen.closed
    /\ loc.seen.in_year = 13

\* The record a pass is at, if its identifier is one seen before.
GiftColliding(m) ==
    /\ m.pc = "dedup_gifts"
    /\ m.i <= Len(m.all_gifts)
    /\ m.all_gifts[m.i].gift_id \in m.seen_ids

ContactColliding(m) ==
    /\ m.pc = "dedup_contacts"
    /\ m.i <= Len(m.all_contacts)
    /\ m.all_contacts[m.i].contact_id \in m.seen_ids

\* A suffix is free for the record a pass is at, and its constituent has
\* fewer records than there are suffixes.
SuffixFree ==
    LET m == runs[1] IN
    /\ GiftColliding(m) =>
          /\ \E suffix \in RetrySuffixes :
                RegenerateGiftId(m.all_gifts[m.i], suffix).gift_id
                    \notin m.seen_ids
          /\ Cardinality({k \in 1..Len(m.all_gifts) :
                 m.all_gifts[k].constituent_id
                     = m.all_gifts[m.i].constituent_id})
                < SuffixHi - SuffixLo + 1
    /\ ContactColliding(m) =>
          /\ \E suffix \in RetrySuffixes :
                RegenerateContactId(m.all_contacts[m.i], suffix).contact_id
                    \notin m.seen_ids
          /\ Cardinality({k \in 1..Len(m.all_contacts) :
                 m.all_contacts[k].constituent_id
                     = m.all_contacts[m.i].constituent_id})
                < SuffixHi - SuffixLo + 1

====
